---- MODULE Spec2Model ----
(***************************************************************************)
(* Model of the ISE meeting room scheduler (src/app.py): a Streamlit app   *)
(* whose sessions book and cancel meeting rooms kept in two Firestore      *)
(* collections ("bookings", "users"), read through two process-wide        *)
(* st.cache_data caches.                                                   *)
(*                                                                         *)
(* Representation of Python values:                                        *)
(*   None                      the string "None" (NoneTime for a time)     *)
(*   datetime.time             [hour, minute, second]                      *)
(*   datetime.date             [year, month, day]                          *)
(*   "HH:MM" (time.isoformat)  the tuple <<hour, minute>>                  *)
(*   "YYYY-MM-DD"              the tuple <<year, month, day>>              *)
(*   "Cancel-<doc_id>"         the tuple <<"Cancel-", doc_id>>, "" is <<>> *)
(*   a list of booking dicts   the set of the dicts (the code only         *)
(*                             iterates over it, the order is never used)  *)
(***************************************************************************)
EXTENDS Integers, Sequences, FiniteSets, TLC

VARIABLES
    bookings,        \* Firestore collection "bookings": the set of documents
    next_doc_id,     \* the next document id Firestore assigns on add()
    users,           \* Firestore collection "users": username -> document
    bookings_cache,  \* st.cache_data(ttl=5) entry of load_bookings_from_db
    users_cache,     \* st.cache_data(ttl=3600) entry of load_users_from_db
    session_state,   \* per session: db_ready, authenticated_user, user_role
    pc,              \* per session: position of its script thread
    call,            \* per session: locals of a running handle_booking_submission,
                     \* or the value a running load_bookings_from_db has read
    page,            \* per session: what the last script run rendered
    last,            \* the last step taken: its session, its handler, what it reported
    ovl,             \* arguments and result of a direct is_time_overlap call
    steps,           \* number of script runs and callback steps taken so far
    faulty,          \* whether a call to Firestore may raise in this run
    fcall            \* a function of the program called on its own: arguments, result

vars == <<bookings, next_doc_id, users, bookings_cache, users_cache,
          session_state, pc, call, page, last, ovl, steps, faulty, fcall>>

----------------------------------------------------------------------------
(* Bounds of the model *)

\* number of documents Firestore hands an id to in one run
MaxBookings == 2
\* number of slider stops after the first one the model lets a user pick
NumStops == 2
\* number of script runs and callback steps of one run of the model
MaxSteps == 6

----------------------------------------------------------------------------
(* Configuration: src/app.py lines 34-51 *)

None == "None"

MOCK_USER_FALLBACK ==
    [u \in {"admin.user"} |->
        [email |-> "admin@ise.com", hashed_password |-> "$2b$", role |-> "admin"]]

RoomNames ==
    <<"ISE_Meeting_Room_I_305_Fl1", "ISE_Meeting_Room_II_Fl2",
      "ISE_Meeting_Room_III_304/1_Fl1">>

ROOMS == {RoomNames[i] : i \in 1..Len(RoomNames)}

TOTAL_MINUTES == 9 * 60

START_HOUR == 8

minutes_to_time(minutes) ==
    LET total_minutes == START_HOUR * 60 + minutes
    IN  [hour |-> total_minutes \div 60, minute |-> total_minutes % 60, second |-> 0]

----------------------------------------------------------------------------
(* Python's datetime values *)

\* datetime.time comparison: hour, then minute, then second
TimeLess(a, b) ==
    \/ a.hour < b.hour
    \/ a.hour = b.hour /\ a.minute < b.minute
    \/ a.hour = b.hour /\ a.minute = b.minute /\ a.second < b.second

\* time.isoformat(timespec='minutes'): "HH:MM", the seconds are dropped
TimeIsoformat(t) == <<t.hour, t.minute>>

\* date.isoformat(): "YYYY-MM-DD"
DateIsoformat(d) == <<d.year, d.month, d.day>>

\* datetime.time.fromisoformat raises on anything that is not "HH:MM[:SS]"
TimeParses(s) ==
    /\ s \in Seq(Nat)
    /\ Len(s) \in {2, 3}
    /\ s[1] < 24
    /\ s[2] < 60
    /\ Len(s) = 3 => s[3] < 60

TimeFromisoformat(s) ==
    [hour |-> s[1], minute |-> s[2], second |-> IF Len(s) = 3 THEN s[3] ELSE 0]

DateParses(s) ==
    /\ s \in Seq(Nat)
    /\ Len(s) = 3
    /\ s[2] \in 1..12
    /\ s[3] \in 1..31

DateFromisoformat(s) == [year |-> s[1], month |-> s[2], day |-> s[3]]

----------------------------------------------------------------------------
(* Conflict check: src/app.py lines 204-233 *)

\* a time argument that is None carries no hour
NoneTime == [none |-> TRUE]

time_to_seconds(t) ==
    IF "hour" \notin DOMAIN t THEN -1 ELSE t.hour * 3600 + t.minute * 60 + t.second

\* is_time_overlap with the two comparisons strict: intervals that only touch overlap
is_time_overlap_Closed(start1, end1, start2, end2) ==
    LET s1 == time_to_seconds(start1)
        e1 == time_to_seconds(end1)
        s2 == time_to_seconds(start2)
        e2 == time_to_seconds(end2)
    IN  ~(e1 < s2 \/ s1 > e2)

is_time_overlap(start1, end1, start2, end2) ==
    LET s1 == time_to_seconds(start1)
        e1 == time_to_seconds(end1)
        s2 == time_to_seconds(start2)
        e2 == time_to_seconds(end2)
    IN  ~(e1 <= s2 \/ s1 >= e2)

\* ConflictsWith with the end of the new booking taken as part of it
ConflictsWith_EndIncluded(new_booking, booking) ==
    /\ DateParses(booking.date)
    /\ TimeParses(booking.start_time)
    /\ TimeParses(booking.end_time)
    /\ booking.room = new_booking.room
    /\ DateFromisoformat(booking.date) = new_booking.date_obj
    /\ \/ is_time_overlap(new_booking.start_time_obj, new_booking.end_time_obj,
                          TimeFromisoformat(booking.start_time),
                          TimeFromisoformat(booking.end_time))
       \/ new_booking.end_time_obj = TimeFromisoformat(booking.start_time)

\* ConflictsWith without the comparison of the rooms
ConflictsWith_AnyRoom(new_booking, booking) ==
    /\ DateParses(booking.date)
    /\ TimeParses(booking.start_time)
    /\ TimeParses(booking.end_time)
    /\ DateFromisoformat(booking.date) = new_booking.date_obj
    /\ is_time_overlap(new_booking.start_time_obj, new_booking.end_time_obj,
                       TimeFromisoformat(booking.start_time),
                       TimeFromisoformat(booking.end_time))

\* one iteration of the loop of is_conflict: does this booking make it return True
ConflictsWith(new_booking, booking) ==
    /\ DateParses(booking.date)
    /\ TimeParses(booking.start_time)
    /\ TimeParses(booking.end_time)
    /\ booking.room = new_booking.room
    /\ DateFromisoformat(booking.date) = new_booking.date_obj
    /\ is_time_overlap(new_booking.start_time_obj, new_booking.end_time_obj,
                       TimeFromisoformat(booking.start_time),
                       TimeFromisoformat(booking.end_time))

is_conflict(new_booking, current_bookings) ==
    \E booking \in current_bookings : ConflictsWith(new_booking, booking)

----------------------------------------------------------------------------
(* The sets the model draws its inputs from *)

\* two browser sessions, each with its own st.session_state and script thread
Sessions == {1, 2}

UserNames == {"admin.user", "alice", "bob"}

\* st.selectbox(options=list(ROOMS.keys())): the room the users of the model pick
FormRooms == {RoomNames[1]}

\* st.date_input: the day the users of the model pick
FormDates == {[year |-> 2024, month |-> 6, day |-> 1]}

\* st.slider(min_value=0, max_value=TOTAL_MINUTES, step=10): the stops around 09:00
SliderStep == 10

FirstStop == 5 * SliderStep

FormMinutes ==
    {m \in 0..TOTAL_MINUTES :
        /\ m % SliderStep = 0
        /\ m >= FirstStop
        /\ m <= FirstStop + SliderStep * NumStops}

\* a range slider returns (low, high) with low <= high
FormRanges == {r \in FormMinutes \X FormMinutes : r[1] <= r[2]}

----------------------------------------------------------------------------
(* st.cache_data entries and the cached loaders: src/app.py lines 91-132 *)

NoCache == [hit |-> FALSE]

\* load_users_from_db() as called by a session whose db_ready is given, on the
\* collection as it is at the call; ok tells whether the Firestore read goes
\* through. Returns the users and the cache entry.
load_users_from_db(cache, db_ready, ok, collection) ==
    IF cache.hit
    THEN [value |-> cache.value, cache |-> cache]
    ELSE LET value ==
                 IF ~db_ready THEN MOCK_USER_FALLBACK
                 ELSE IF ~ok THEN MOCK_USER_FALLBACK
                 ELSE IF DOMAIN collection = {} THEN MOCK_USER_FALLBACK
                 ELSE collection
         IN  [value |-> value, cache |-> [hit |-> TRUE, value |-> value]]

\* load_bookings_from_db(): failed records that the value is the [] of a branch
\* that did not read the collection (it is no part of the program's state)
load_bookings_from_db(cache, db_ready, ok, collection) ==
    IF cache.hit
    THEN [value |-> cache.value, failed |-> cache.failed, cache |-> cache]
    ELSE LET read == db_ready /\ ok
             value == IF read THEN collection ELSE {}
         IN  [value |-> value, failed |-> ~read,
              cache |-> [hit |-> TRUE, value |-> value, failed |-> ~read]]

\* the outcomes of the Firestore read a loader makes: none is made on a cache hit
ReadOutcomes(cache) == IF cache.hit \/ ~faulty THEN {TRUE} ELSE BOOLEAN

\* the outcomes of a Firestore write
WriteOutcomes == IF faulty THEN BOOLEAN ELSE {TRUE}

----------------------------------------------------------------------------
(* One script run of main(): src/app.py lines 603-653, with the table of     *)
(* display_data_and_export (lines 529-584) and the forms it renders          *)

BlankPage == [login_form |-> FALSE, booking_form |-> FALSE, table |-> {}]

\* can_cancel without the test: every row gets its button
can_cancel_Always(b, current_user, current_role) == TRUE

\* can_cancel of display_data_and_export
can_cancel(b, current_user, current_role) ==
    LET is_owner == b.user_id = current_user
    IN  is_owner \/ current_role = "admin"

\* the rows of bookings_for_display: the document and the value of its cancel cell
TableRows(current_bookings, current_user, current_role) ==
    {[doc_id |-> b.doc_id,
      item |-> IF can_cancel(b, current_user, current_role)
               THEN <<"Cancel-", b.doc_id>> ELSE <<>>] : b \in current_bookings}

\* main() for a session in state ss, with the caches uc and bc and the collections
\* ucoll and bcoll; okU and okB tell whether a Firestore read of users and of
\* bookings goes through
RenderPage(ss, uc, bc, okU, okB, ucoll, bcoll) ==
    LET lu == load_users_from_db(uc, ss.db_ready, okU, ucoll)
        authenticated == ss.authenticated_user # None
    IN  IF ~ss.db_ready
        THEN [page |-> [BlankPage EXCEPT !.login_form = ~authenticated],
              users_cache |-> lu.cache, bookings_cache |-> bc]
        ELSE LET lb == load_bookings_from_db(bc, ss.db_ready, okB, bcoll)
                 known == ss.authenticated_user \in DOMAIN lu.value
             IN  [page |->
                     [login_form |-> ~authenticated,
                      \* display_booking_form raises KeyError for a user that is
                      \* not in the loaded users: the run stops before the table
                      booking_form |-> authenticated /\ known,
                      table |-> IF authenticated /\ known
                                THEN TableRows(lb.value, ss.authenticated_user,
                                               ss.user_role)
                                ELSE {}],
                  users_cache |-> lu.cache, bookings_cache |-> lb.cache]

----------------------------------------------------------------------------
(* Initial state: the users collection holds three accounts, no room is     *)
(* booked, the caches are empty and every session has run initialize_state  *)
(* (src/app.py lines 192-201) and has either reached Firestore or not       *)

InitUsers ==
    [u \in UserNames |->
        [email |-> IF u = "admin.user" THEN "admin@ise.com"
                   ELSE IF u = "alice" THEN "alice@ise.com" ELSE "bob@ise.com",
         hashed_password |-> "$2b$",
         role |-> IF u = "admin.user" THEN "admin" ELSE "user"]]

NoCall == [active |-> FALSE]

NoOutcome == [session |-> 0, op |-> "none", result |-> "none", doc_id |-> 0]

NoOvl == [called |-> FALSE]

NoFcall == [fn |-> "none"]

InitProgram ==
    /\ bookings = {}
    /\ next_doc_id = 1
    /\ users = InitUsers
    /\ bookings_cache = NoCache
    /\ users_cache = NoCache
    /\ session_state \in
           [Sessions -> {[db_ready |-> r, authenticated_user |-> None,
                          user_role |-> None] : r \in BOOLEAN}]
    /\ pc = [s \in Sessions |-> "idle"]
    /\ call = [s \in Sessions |-> NoCall]
    /\ page = [s \in Sessions |-> [BlankPage EXCEPT !.login_form = TRUE]]
    /\ last = NoOutcome

Init == InitProgram /\ ovl = NoOvl /\ fcall = NoFcall /\ steps = 0 /\ faulty = TRUE

\* every step of a session counts against the length of the run
Tick == steps < MaxSteps /\ steps' = steps + 1 /\ UNCHANGED faulty

----------------------------------------------------------------------------
(* Script runs without a callback *)

\* the page is drawn again (a reload, or a widget without a callback)
Rerun(s) ==
    /\ Tick
    /\ pc[s] = "idle"
    /\ \E okU \in ReadOutcomes(users_cache), okB \in ReadOutcomes(bookings_cache) :
           LET r == RenderPage(session_state[s], users_cache, bookings_cache, okU, okB,
                                users, bookings)
           IN  /\ page' = [page EXCEPT ![s] = r.page]
               /\ users_cache' = r.users_cache
               /\ bookings_cache' = r.bookings_cache
    /\ last' = [session |-> s, op |-> "rerun", result |-> "none", doc_id |-> 0]
    /\ UNCHANGED <<bookings, next_doc_id, users, session_state, pc, call, ovl, fcall>>

\* the ttl of a cache entry runs out (5 s for bookings, 3600 s for users)
ExpireBookingsCache ==
    /\ Tick
    /\ bookings_cache.hit
    /\ bookings_cache' = NoCache
    /\ last' = [session |-> 0, op |-> "ttl", result |-> "none", doc_id |-> 0]
    /\ UNCHANGED <<bookings, next_doc_id, users, users_cache, session_state, pc,
                   call, page, ovl, fcall>>

ExpireUsersCache ==
    /\ Tick
    /\ users_cache.hit
    /\ users_cache' = NoCache
    /\ last' = [session |-> 0, op |-> "ttl", result |-> "none", doc_id |-> 0]
    /\ UNCHANGED <<bookings, next_doc_id, users, bookings_cache, session_state, pc,
                   call, page, ovl, fcall>>

----------------------------------------------------------------------------
(* Login and logout: src/app.py lines 330-370 and 321-327 *)

\* the login form is submitted; is_correct is the result of the password check
Login(s, username, is_correct) ==
    /\ Tick
    /\ pc[s] = "idle"
    /\ page[s].login_form
    /\ \E okU \in ReadOutcomes(users_cache), okB \in ReadOutcomes(bookings_cache) :
           LET ss == session_state[s]
               lu == load_users_from_db(users_cache, ss.db_ready, okU, users)
               current_users == lu.value
               accepted == username \in DOMAIN current_users /\ is_correct
               ss2 == IF accepted
                      THEN [ss EXCEPT !.authenticated_user = username,
                                      !.user_role = current_users[username].role]
                      ELSE ss
               r == RenderPage(ss2, lu.cache, bookings_cache, okU, okB, users, bookings)
           IN  /\ session_state' = [session_state EXCEPT ![s] = ss2]
               /\ page' = [page EXCEPT ![s] = r.page]
               /\ users_cache' = r.users_cache
               /\ bookings_cache' = r.bookings_cache
               /\ last' =
                      [session |-> s, op |-> "login",
                       result |-> IF accepted THEN "ok" ELSE "refused",
                       doc_id |-> 0]
    /\ UNCHANGED <<bookings, next_doc_id, users, pc, call, ovl, fcall>>

\* the on_click of the logout button, and the script run after it
Logout(s) ==
    /\ Tick
    /\ pc[s] = "idle"
    /\ session_state[s].authenticated_user # None
    /\ \E okU \in ReadOutcomes(NoCache), okB \in ReadOutcomes(NoCache) :
           LET ss2 == [session_state[s] EXCEPT !.authenticated_user = None,
                                               !.user_role = None]
               r == RenderPage(ss2, NoCache, NoCache, okU, okB, users, bookings)
           IN  /\ session_state' = [session_state EXCEPT ![s] = ss2]
               /\ page' = [page EXCEPT ![s] = r.page]
               /\ users_cache' = r.users_cache
               /\ bookings_cache' = r.bookings_cache
               /\ last' =
                      [session |-> s, op |-> "logout", result |-> "ok", doc_id |-> 0]
    /\ UNCHANGED <<bookings, next_doc_id, users, pc, call, ovl, fcall>>

----------------------------------------------------------------------------
(* Writes to the bookings collection: src/app.py lines 136-168 *)

\* save_booking_to_db writing with document(room).set(new_booking), as
\* save_new_user_to_db does with the username: the booking of the room is replaced
save_booking_to_db_SetByRoom(new_booking, db_ready, ok, collection, doc_id, cache) ==
    IF db_ready /\ ok
    THEN [saved |-> TRUE,
          bookings |-> {b \in collection : b.room # new_booking.room} \cup
              {[doc_id |-> doc_id,
                room |-> new_booking.room,
                date |-> new_booking.date,
                start_time |-> new_booking.start_time,
                end_time |-> new_booking.end_time,
                user_id |-> new_booking.user_id,
                user_email |-> new_booking.user_email,
                date_obj |-> new_booking.date_obj,
                start_time_obj |-> new_booking.start_time_obj,
                end_time_obj |-> new_booking.end_time_obj]},
          bookings_cache |-> NoCache]
    ELSE [saved |-> FALSE, bookings |-> collection, bookings_cache |-> cache]

\* save_booking_to_db(new_booking): ok tells whether collection.add goes through;
\* Firestore assigns the document id
save_booking_to_db(new_booking, db_ready, ok, collection, doc_id, cache) ==
    IF db_ready /\ ok
    THEN [saved |-> TRUE,
          bookings |-> collection \cup
              {[doc_id |-> doc_id,
                room |-> new_booking.room,
                date |-> new_booking.date,
                start_time |-> new_booking.start_time,
                end_time |-> new_booking.end_time,
                user_id |-> new_booking.user_id,
                user_email |-> new_booking.user_email,
                date_obj |-> new_booking.date_obj,
                start_time_obj |-> new_booking.start_time_obj,
                end_time_obj |-> new_booking.end_time_obj]},
          bookings_cache |-> NoCache]
    ELSE [saved |-> FALSE, bookings |-> collection, bookings_cache |-> cache]

\* the value of a cancel cell names a document: "Cancel-<id>" or a bare id
HasCancelPrefix(item) == Len(item) = 2 /\ item[1] = "Cancel-"

\* delete_booking_from_db(doc_id): ok tells whether document(id).delete() goes
\* through. Firestore deletes a document that does not exist without an error;
\* the empty id of a cell without a button names no document and raises.
delete_booking_from_db(item, db_ready, ok, collection, cache) ==
    IF ~db_ready
    THEN [deleted |-> FALSE, bookings |-> collection, bookings_cache |-> cache]
    ELSE LET actual_doc_id == IF HasCancelPrefix(item) THEN <<item[2]>> ELSE item
         IN  IF Len(actual_doc_id) = 1 /\ ok
             THEN [deleted |-> TRUE,
                   bookings |-> {b \in collection : b.doc_id # actual_doc_id[1]},
                   bookings_cache |-> NoCache]
             ELSE [deleted |-> FALSE, bookings |-> collection,
                   bookings_cache |-> cache]

----------------------------------------------------------------------------
(* handle_booking_submission: src/app.py lines 237-268 *)

\* lines 252-262 with the e-mail address under 'user_id'
NewBooking_EmailAsOwner(room_name, booking_date, start_time, end_time, user_id, user_email) ==
    [room |-> room_name,
     date |-> DateIsoformat(booking_date),
     start_time |-> TimeIsoformat(start_time),
     end_time |-> TimeIsoformat(end_time),
     user_id |-> user_email,
     user_email |-> user_email,
     date_obj |-> booking_date,
     start_time_obj |-> start_time,
     end_time_obj |-> end_time]

\* lines 252-262
NewBooking(room_name, booking_date, start_time, end_time, user_id, user_email) ==
    [room |-> room_name,
     date |-> DateIsoformat(booking_date),
     start_time |-> TimeIsoformat(start_time),
     end_time |-> TimeIsoformat(end_time),
     user_id |-> user_id,
     user_email |-> user_email,
     date_obj |-> booking_date,
     start_time_obj |-> start_time,
     end_time_obj |-> end_time]

\* Admit without the else: the booking is written after the conflict toast too
Admit_WriteAnyway(new_booking, current_bookings, db_ready, ok, collection, doc_id, cache) ==
    LET sv == save_booking_to_db(new_booking, db_ready, ok, collection, doc_id, cache)
    IN  [result |-> IF is_conflict(new_booking, current_bookings) THEN "conflict"
                    ELSE IF sv.saved THEN "confirmed" ELSE "save_failed",
         bookings |-> sv.bookings, bookings_cache |-> sv.bookings_cache]

\* lines 264-268: the conflict test on the loaded bookings, then the write
Admit(new_booking, current_bookings, db_ready, ok, collection, doc_id, cache) ==
    IF is_conflict(new_booking, current_bookings)
    THEN [result |-> "conflict", bookings |-> collection, bookings_cache |-> cache]
    ELSE LET sv == save_booking_to_db(new_booking, db_ready, ok, collection,
                                      doc_id, cache)
         IN  [result |-> IF sv.saved THEN "confirmed" ELSE "save_failed",
              bookings |-> sv.bookings, bookings_cache |-> sv.bookings_cache]

\* lines 265, 268 and 146: what the message shown at the end of the handler
\* carries; the conflict toast interpolates room_name and nothing else
Toast(result, room_name) ==
    IF result = "conflict" THEN [text |-> result, room |-> room_name]
    ELSE [text |-> result]

\* what a call that went through to lines 264-268 leaves in last
SubmissionOutcome(s, result, doc_id, room_name) ==
    [session |-> s, op |-> "book", result |-> result,
     doc_id |-> IF result = "confirmed" THEN doc_id ELSE 0,
     toast |-> Toast(result, room_name)]

\* Firestore has a fresh document id for every submission that is under way
IdsLeft ==
    next_doc_id + Cardinality({t \in Sessions : pc[t] = "submitting"}) <= MaxBookings

\* lines 240-246 without the first test: nobody is asked to log in
handle_booking_submission_checks_NoLogin(authenticated_user, start_time, end_time) ==
    IF ~TimeLess(start_time, end_time) THEN "invalid_interval" ELSE "none"

\* lines 240-246 without the second test: any two times are taken as an interval
handle_booking_submission_checks_NoInterval(authenticated_user, start_time, end_time) ==
    IF authenticated_user = None THEN "unauthenticated" ELSE "none"

\* lines 240-246: the two tests that end the handler with a toast before it
\* loads anything; "none" when both pass
handle_booking_submission_checks(authenticated_user, start_time, end_time) ==
    IF authenticated_user = None THEN "unauthenticated"
    ELSE IF ~TimeLess(start_time, end_time) THEN "invalid_interval"
    ELSE "none"

\* lines 240-250: the checks and the two loads of a call of the handler by
\* session s. A callback that raises ends the script run: the page shows the
\* exception only. last keeps the two times of the call and, as loaded, the
\* loaders the callback has called. failed and
\* began_at are kept beside the locals to tell where the loaded bookings came
\* from and which documents were added while the handler ran; the code has
\* neither.
BeginSubmission(s, room_name, booking_date, start_time, end_time) ==
    /\ Tick
    /\ pc[s] = "idle"
    /\ IdsLeft
    /\ \E okU \in ReadOutcomes(users_cache), okB \in ReadOutcomes(bookings_cache) :
        LET ss == session_state[s]
            lu == load_users_from_db(users_cache, ss.db_ready, okU, users)
            lb == load_bookings_from_db(bookings_cache, ss.db_ready, okB, bookings)
            early == handle_booking_submission_checks(ss.authenticated_user,
                                                      start_time, end_time)
        IN  IF early # "none"
            THEN LET r == RenderPage(ss, users_cache, bookings_cache, okU, okB,
                                     users, bookings)
                 IN  /\ last' =
                            [session |-> s, op |-> "book", result |-> early,
                             doc_id |-> 0, loaded |-> {},
                             start_time |-> start_time, end_time |-> end_time]
                     /\ page' = [page EXCEPT ![s] = r.page]
                     /\ users_cache' = r.users_cache
                     /\ bookings_cache' = r.bookings_cache
                     /\ UNCHANGED <<pc, call>>
            ELSE IF ss.authenticated_user \notin DOMAIN lu.value
            THEN /\ last' =
                        [session |-> s, op |-> "book", result |-> "KeyError",
                         doc_id |-> 0, loaded |-> {"users"},
                         start_time |-> start_time, end_time |-> end_time]
                 /\ page' = [page EXCEPT ![s] = BlankPage]
                 /\ users_cache' = lu.cache
                 /\ UNCHANGED <<bookings_cache, pc, call>>
            ELSE /\ call' = [call EXCEPT ![s] =
                        [active |-> TRUE,
                         new_booking |->
                             NewBooking(room_name, booking_date, start_time, end_time,
                                        ss.authenticated_user,
                                        lu.value[ss.authenticated_user].email),
                         current_bookings |-> lb.value,
                         failed |-> lb.failed,
                         began_at |-> next_doc_id]]
                 /\ pc' = [pc EXCEPT ![s] = "submitting"]
                 /\ users_cache' = lu.cache
                 /\ bookings_cache' = lb.cache
                 /\ last' =
                        [session |-> s, op |-> "book", result |-> "running",
                         doc_id |-> 0, loaded |-> {"users", "bookings"},
                         start_time |-> start_time, end_time |-> end_time]
                 /\ UNCHANGED page
    /\ UNCHANGED <<bookings, next_doc_id, users, session_state, ovl, fcall>>

\* the booking form is submitted (lines 504-526): the handler gets the room and
\* the date of the form and the two times of the slider
SubmitBegin(s, room_name, booking_date, time_range) ==
    /\ page[s].booking_form
    /\ BeginSubmission(s, room_name, booking_date, minutes_to_time(time_range[1]),
                       minutes_to_time(time_range[2]))

\* lines 264-268, and the script run after the callback
SubmitCommit(s) ==
    /\ Tick
    /\ pc[s] = "submitting"
    /\ \E ok \in WriteOutcomes, okU \in ReadOutcomes(users_cache),
          okB \in ReadOutcomes(NoCache) :
        /\ LET ss == session_state[s]
               a == Admit(call[s].new_booking, call[s].current_bookings, ss.db_ready,
                          ok, bookings, next_doc_id, bookings_cache)
               r == RenderPage(ss, users_cache, a.bookings_cache, okU, okB,
                               users, a.bookings)
           IN  /\ bookings' = a.bookings
               /\ next_doc_id' = IF a.result = "confirmed"
                                 THEN next_doc_id + 1 ELSE next_doc_id
               /\ last' = SubmissionOutcome(s, a.result, next_doc_id,
                                            call[s].new_booking.room)
               /\ page' = [page EXCEPT ![s] = r.page]
               /\ users_cache' = r.users_cache
               /\ bookings_cache' = r.bookings_cache
    /\ pc' = [pc EXCEPT ![s] = "idle"]
    /\ call' = [call EXCEPT ![s] = NoCall]
    /\ UNCHANGED <<users, session_state, ovl, fcall>>

----------------------------------------------------------------------------
(* A click in the cancel column of the table: src/app.py lines 571-579 call   *)
(* delete_booking_from_db with the value of the clicked cell                   *)

Cancel(s, row) ==
    /\ Tick
    /\ pc[s] = "idle"
    /\ row \in page[s].table
    /\ \E ok \in WriteOutcomes, okU \in ReadOutcomes(users_cache),
          okB \in ReadOutcomes(NoCache) :
        LET ss == session_state[s]
            d == delete_booking_from_db(row.item, ss.db_ready, ok, bookings,
                                        bookings_cache)
            r == RenderPage(ss, users_cache, d.bookings_cache, okU, okB,
                            users, d.bookings)
        IN  /\ bookings' = d.bookings
            /\ last' =
                   [session |-> s, op |-> "cancel",
                    result |-> IF d.deleted THEN "cancelled" ELSE "error",
                    doc_id |-> row.doc_id]
            /\ page' = [page EXCEPT ![s] = r.page]
            /\ users_cache' = r.users_cache
            /\ bookings_cache' = r.bookings_cache
    /\ UNCHANGED <<next_doc_id, users, session_state, pc, call, ovl, fcall>>

----------------------------------------------------------------------------
(* The specification *)

Next ==
    \/ \E s \in Sessions : Rerun(s)
    \/ ExpireBookingsCache
    \/ ExpireUsersCache
    \/ \E s \in Sessions, username \in UserNames, is_correct \in BOOLEAN :
           Login(s, username, is_correct)
    \/ \E s \in Sessions : Logout(s)
    \/ \E s \in Sessions, room_name \in FormRooms, booking_date \in FormDates,
          time_range \in FormRanges :
           SubmitBegin(s, room_name, booking_date, time_range)
    \/ \E s \in Sessions : SubmitCommit(s)
    \/ \E s \in Sessions : \E row \in page[s].table : Cancel(s, row)

Spec == Init /\ [][Next]_vars

----------------------------------------------------------------------------
(* Requests handled one after another: while a handle_booking_submission    *)
(* runs, no other session takes a step                                      *)

Quiet == \A s \in Sessions : pc[s] = "idle"

NextSeq ==
    \/ \E s \in Sessions : Quiet /\ Rerun(s)
    \/ Quiet /\ ExpireBookingsCache
    \/ Quiet /\ ExpireUsersCache
    \/ \E s \in Sessions, username \in UserNames, is_correct \in BOOLEAN :
           Quiet /\ Login(s, username, is_correct)
    \/ \E s \in Sessions : Quiet /\ Logout(s)
    \/ \E s \in Sessions, room_name \in FormRooms, booking_date \in FormDates,
          time_range \in FormRanges :
           Quiet /\ SubmitBegin(s, room_name, booking_date, time_range)
    \/ \E s \in Sessions : SubmitCommit(s)
    \/ \E s \in Sessions : \E row \in page[s].table : Quiet /\ Cancel(s, row)

SeqSpec == Init /\ [][NextSeq]_vars

----------------------------------------------------------------------------
(* Runs in which every session reached Firestore and no call to it raises *)

InitReliable ==
    /\ InitProgram
    /\ \A s \in Sessions : session_state[s].db_ready
    /\ ovl = NoOvl
    /\ fcall = NoFcall
    /\ steps = 0
    /\ faulty = FALSE

ReliableSpec == InitReliable /\ [][Next]_vars

----------------------------------------------------------------------------
(* handle_booking_submission called with arguments no form has made: by a    *)
(* click that reaches the server from a page drawn before a logout, or by     *)
(* other code. The room is any string, the times come in any order.           *)

CallRooms == FormRooms \cup {"Room_X"}

\* the first two stops of the slider, in either order and twice the same
CallTimes == {minutes_to_time(m) : m \in {FirstStop, FirstStop + SliderStep}}

SubmitCall(s, room_name, booking_date, start_time, end_time) ==
    BeginSubmission(s, room_name, booking_date, start_time, end_time)

NextCalls ==
    \/ Next
    \/ \E s \in Sessions, room_name \in CallRooms, booking_date \in FormDates,
          start_time \in CallTimes, end_time \in CallTimes :
           SubmitCall(s, room_name, booking_date, start_time, end_time)

SpecCalls == InitReliable /\ [][NextCalls]_vars

----------------------------------------------------------------------------
(* load_bookings_from_db in two steps. On a miss st.cache_data calls the      *)
(* function (lines 121-129, the Firestore read) and stores what it returned   *)
(* afterwards; it holds the lock of the entry meanwhile, so a load of another *)
(* session waits and then finds the stored value. clear() (lines 143, 163)    *)
(* takes no lock: a write of another session and its clear() can fall between *)
(* the read and the store.                                                     *)

Loading == \E t \in Sessions : pc[t] = "loading"

\* a script run of session t misses the cache and has read the collection
LoadBegin(t) ==
    /\ Tick
    /\ ~Loading
    /\ pc[t] = "idle"
    /\ session_state[t].db_ready
    /\ ~bookings_cache.hit
    /\ pc' = [pc EXCEPT ![t] = "loading"]
    /\ call' = [call EXCEPT ![t] = [active |-> TRUE, value |-> bookings]]
    /\ last' = [session |-> t, op |-> "rerun", result |-> "running", doc_id |-> 0]
    /\ UNCHANGED <<bookings, next_doc_id, users, bookings_cache, users_cache,
                   session_state, page, ovl, fcall>>

\* the value read is stored in the cache and the script run goes on with it
LoadEnd(t) ==
    /\ Tick
    /\ pc[t] = "loading"
    /\ LET bc == [hit |-> TRUE, value |-> call[t].value, failed |-> FALSE]
           r == RenderPage(session_state[t], users_cache, bc, TRUE, TRUE,
                           users, bookings)
       IN  /\ page' = [page EXCEPT ![t] = r.page]
           /\ users_cache' = r.users_cache
           /\ bookings_cache' = r.bookings_cache
    /\ pc' = [pc EXCEPT ![t] = "idle"]
    /\ call' = [call EXCEPT ![t] = NoCall]
    /\ last' = [session |-> t, op |-> "rerun", result |-> "none", doc_id |-> 0]
    /\ UNCHANGED <<bookings, next_doc_id, users, session_state, ovl, fcall>>

\* lines 264-268 of session s while the read of session t is under way: the
\* write and its clear() go through at once; the script run after the callback
\* waits for the lock of the cache entry, which t gives up when its value is
\* stored, and both pages are drawn from that value
SubmitCommitWhileLoading(s, t) ==
    /\ Tick
    /\ pc[s] = "submitting"
    /\ pc[t] = "loading"
    /\ LET ss == session_state[s]
           a == Admit(call[s].new_booking, call[s].current_bookings, ss.db_ready,
                      TRUE, bookings, next_doc_id, bookings_cache)
           bc == [hit |-> TRUE, value |-> call[t].value, failed |-> FALSE]
           rt == RenderPage(session_state[t], users_cache, bc, TRUE, TRUE,
                            users, a.bookings)
           rs == RenderPage(ss, rt.users_cache, rt.bookings_cache, TRUE, TRUE,
                            users, a.bookings)
       IN  /\ bookings' = a.bookings
           /\ next_doc_id' = IF a.result = "confirmed"
                             THEN next_doc_id + 1 ELSE next_doc_id
           /\ last' = SubmissionOutcome(s, a.result, next_doc_id,
                                        call[s].new_booking.room)
           /\ page' = [page EXCEPT ![t] = rt.page, ![s] = rs.page]
           /\ users_cache' = rs.users_cache
           /\ bookings_cache' = rs.bookings_cache
    /\ pc' = [pc EXCEPT ![s] = "idle", ![t] = "idle"]
    /\ call' = [call EXCEPT ![s] = NoCall, ![t] = NoCall]
    /\ UNCHANGED <<users, session_state, ovl, fcall>>

NextSlowRead ==
    \/ ~Loading /\ Next
    \/ \E t \in Sessions : LoadBegin(t)
    \/ \E t \in Sessions : LoadEnd(t)
    \/ \E s \in Sessions, t \in Sessions : SubmitCommitWhileLoading(s, t)

SpecSlowRead == InitReliable /\ [][NextSlowRead]_vars

----------------------------------------------------------------------------
(* is_time_overlap called on its own, on times to the minute around 09:00 *)

OverlapMinutes == (60 - NumStops)..(60 + 1)

OverlapTimes == {minutes_to_time(m) : m \in OverlapMinutes}

InitOverlap ==
    /\ InitProgram
    /\ steps = 0
    /\ faulty = FALSE
    /\ fcall = NoFcall
    /\ \A s \in Sessions : session_state[s].db_ready
    /\ ovl \in {[called |-> FALSE, start1 |-> a, end1 |-> b, start2 |-> c, end2 |-> d,
                 result |-> FALSE] : a \in OverlapTimes, b \in OverlapTimes,
                                     c \in OverlapTimes, d \in OverlapTimes}

CallOverlap ==
    /\ ~ovl.called
    /\ ovl' = [ovl EXCEPT !.called = TRUE,
                          !.result = is_time_overlap(ovl.start1, ovl.end1,
                                                     ovl.start2, ovl.end2)]
    /\ UNCHANGED <<bookings, next_doc_id, users, bookings_cache, users_cache,
                   session_state, pc, call, page, last, steps, faulty, fcall>>

NextOverlap == CallOverlap

SpecOverlap == InitOverlap /\ [][NextOverlap]_vars

----------------------------------------------------------------------------
(* Stores the program can have written: documents as save_booking_to_db adds *)
(* them, for two rooms, two days, the form's intervals and two users          *)

StoreRooms == {RoomNames[1], RoomNames[2]}

StoreDates == FormDates \cup {[year |-> 2024, month |-> 6, day |-> 2]}

StoreUsers == {"alice", "bob"}

\* the documents Firestore can hold under the id doc_id
DocumentsAt(doc_id) ==
    UNION {save_booking_to_db(
               NewBooking(room_name, booking_date, minutes_to_time(r[1]),
                          minutes_to_time(r[2]), u, InitUsers[u].email),
               TRUE, TRUE, {}, doc_id, NoCache).bookings :
           room_name \in StoreRooms, booking_date \in StoreDates,
           r \in {x \in FormRanges : x[1] < x[2]}, u \in StoreUsers}

RECURSIVE StoresOf(_)
\* the collections of up to n documents, with the ids 1..n given in turn
StoresOf(n) ==
    IF n = 0 THEN {{}}
    ELSE LET smaller == StoresOf(n - 1)
         IN  smaller \cup
             {st \cup {d} : st \in {x \in smaller : Cardinality(x) = n - 1},
                            d \in DocumentsAt(n)}

----------------------------------------------------------------------------
(* display_availability_chart: src/app.py lines 425-472 *)

\* datetime.datetime.combine(date, time)
DatetimeCombine(d, t) == [date |-> d, time |-> t]

\* daily_bookings without the test of the date: every booking gets a bar
daily_bookings_AllDates(chart_bookings, view_date) ==
    {[Room |-> b.room,
      Start |-> DatetimeCombine(view_date, TimeFromisoformat(b.start_time)),
      Finish |-> DatetimeCombine(view_date, TimeFromisoformat(b.end_time)),
      User |-> b.user_id] :
        b \in {x \in chart_bookings :
                  /\ DateParses(x.date)
                  /\ TimeParses(x.start_time)
                  /\ TimeParses(x.end_time)}}

\* lines 429-441: the rows of the chart; a booking that does not parse is skipped
daily_bookings(chart_bookings, view_date) ==
    {[Room |-> b.room,
      Start |-> DatetimeCombine(view_date, TimeFromisoformat(b.start_time)),
      Finish |-> DatetimeCombine(view_date, TimeFromisoformat(b.end_time)),
      User |-> b.user_id] :
        b \in {x \in chart_bookings :
                  /\ DateParses(x.date)
                  /\ DateFromisoformat(x.date) = view_date
                  /\ TimeParses(x.start_time)
                  /\ TimeParses(x.end_time)}}

\* lines 443-472: no chart without rows; else one bar per row, on the line of
\* its room, from Start to Finish, with the colour and the text of its user,
\* on an x axis from minutes_to_time(0) to minutes_to_time(TOTAL_MINUTES)
display_availability_chart(chart_bookings, view_date) ==
    LET rows == daily_bookings(chart_bookings, view_date)
    IN  [drawn |-> rows # {},
         bars |-> rows,
         range |-> <<DatetimeCombine(view_date, minutes_to_time(0)),
                     DatetimeCombine(view_date, minutes_to_time(TOTAL_MINUTES))>>]

\* a store as the program can have left it, every session at the login form
InitStored ==
    /\ bookings \in StoresOf(MaxBookings)
    /\ next_doc_id = Cardinality(bookings) + 1
    /\ users = InitUsers
    /\ bookings_cache = NoCache
    /\ users_cache = NoCache
    /\ session_state =
           [s \in Sessions |-> [db_ready |-> TRUE, authenticated_user |-> None,
                                user_role |-> None]]
    /\ pc = [s \in Sessions |-> "idle"]
    /\ call = [s \in Sessions |-> NoCall]
    /\ page = [s \in Sessions |-> [BlankPage EXCEPT !.login_form = TRUE]]
    /\ last = NoOutcome
    /\ ovl = NoOvl
    /\ steps = 0
    /\ faulty = FALSE

\* the chart of a day is asked for: main, lines 632-639, with the bookings of
\* the store as the loaded bookings
InitChart ==
    /\ InitStored
    /\ fcall \in {[fn |-> "display_availability_chart", done |-> FALSE,
                   view_date |-> d] : d \in StoreDates}

DrawChart ==
    /\ fcall.fn = "display_availability_chart"
    /\ ~fcall.done
    /\ fcall' = [fn |-> fcall.fn, done |-> TRUE, view_date |-> fcall.view_date,
                 chart |-> display_availability_chart(bookings, fcall.view_date)]
    /\ UNCHANGED <<bookings, next_doc_id, users, bookings_cache, users_cache,
                   session_state, pc, call, page, last, ovl, steps, faulty>>

NextChart == DrawChart

SpecChart == InitChart /\ [][NextChart]_vars

----------------------------------------------------------------------------
(* is_conflict and lines 264-265 on their own: bob's request from the form    *)
(* against a store of alice's bookings in two rooms on two days               *)

InitConflict ==
    /\ InitStored
    /\ \A b \in bookings : b.user_id = "alice"
    /\ fcall \in {[fn |-> "is_conflict", done |-> FALSE,
                   new_booking |->
                       NewBooking(room_name, booking_date, minutes_to_time(r[1]),
                                  minutes_to_time(r[2]), "bob", InitUsers["bob"].email)] :
                  room_name \in FormRooms, booking_date \in FormDates,
                  r \in {x \in FormRanges : x[1] < x[2]}}

CallIsConflict ==
    /\ fcall.fn = "is_conflict"
    /\ ~fcall.done
    /\ fcall' = [fn |-> fcall.fn, done |-> TRUE, new_booking |-> fcall.new_booking,
                 result |-> is_conflict(fcall.new_booking, bookings),
                 answer |-> Admit(fcall.new_booking, bookings, TRUE, TRUE, bookings,
                                  next_doc_id, NoCache).result]
    /\ UNCHANGED <<bookings, next_doc_id, users, bookings_cache, users_cache,
                   session_state, pc, call, page, last, ovl, steps, faulty>>

NextConflict == CallIsConflict

SpecConflict == InitConflict /\ [][NextConflict]_vars

----------------------------------------------------------------------------
(* The time slider of display_booking_form on its own: src/app.py lines      *)
(* 479-482 and 504-516                                                        *)

min_minutes == 0

max_minutes == TOTAL_MINUTES

default_start_minutes == START_HOUR * 60 + 60

default_end_minutes == default_start_minutes + 60

\* st.slider(min_value, max_value, value=(low, high), step): Streamlit makes
\* min <= value <= max true by moving the bounds out to the default value; the
\* user then picks any two stops of the widened slider, low <= high
st_slider(min_value, max_value, value, step) ==
    LET lo == IF value[1] < min_value THEN value[1] ELSE min_value
        hi == IF value[2] > max_value THEN value[2] ELSE max_value
        stops == {m \in lo..hi : (m - lo) % step = 0}
    IN  [min_value |-> lo, max_value |-> hi, value |-> value,
         returns |-> {value} \cup {r \in stops \X stops : r[1] <= r[2]}]

\* lines 504-513: the slider of the form
time_range_slider ==
    st_slider(min_minutes, max_minutes,
              <<default_start_minutes, default_end_minutes>>, SliderStep)

\* the form is drawn with the default value or with a range the user picked
InitSlider ==
    /\ InitProgram
    /\ \A s \in Sessions : session_state[s].db_ready
    /\ ovl = NoOvl
    /\ steps = 0
    /\ faulty = FALSE
    /\ fcall \in {[fn |-> "display_booking_form", done |-> FALSE, time_range |-> r] :
                  r \in time_range_slider.returns}

\* lines 515-516: the two times handed to handle_booking_submission
FormTimes ==
    /\ fcall.fn = "display_booking_form"
    /\ ~fcall.done
    /\ fcall' = [fn |-> fcall.fn, done |-> TRUE, time_range |-> fcall.time_range,
                 start_time |-> minutes_to_time(fcall.time_range[1]),
                 end_time |-> minutes_to_time(fcall.time_range[2])]
    /\ UNCHANGED <<bookings, next_doc_id, users, bookings_cache, users_cache,
                   session_state, pc, call, page, last, ovl, steps, faulty>>

NextSlider == FormTimes

SpecSlider == InitSlider /\ [][NextSlider]_vars

----------------------------------------------------------------------------
(* Sign-up: src/app.py lines 171-187 and 273-306. The sign-up form is drawn  *)
(* for a session without a user once it has switched to it (lines 373-375);  *)
(* handle_signup runs in the session's script run.                            *)

\* the usernames and e-mail addresses typed into the form
SignupNames == {"alice", "carol"}

SignupEmails == {"carol@ise.com", "eve@ise.com"}

\* save_new_user_to_db(username, email, hashed_password): ok tells whether
\* document(username).set(user_data) goes through; set() writes the document
\* whether or not one of that name exists
save_new_user_to_db(username, email, hashed_password, db_ready, ok, collection, cache) ==
    IF db_ready /\ ok
    THEN [saved |-> TRUE,
          users |-> [u \in DOMAIN collection \cup {username} |->
                        IF u = username
                        THEN [email |-> email, hashed_password |-> hashed_password,
                              role |-> "user"]
                        ELSE collection[u]],
          users_cache |-> NoCache]
    ELSE [saved |-> FALSE, users |-> collection, users_cache |-> cache]

\* lines 275-300: the load, the tests and the hash. filled: no field is empty;
\* matches: password = confirm_password; hashed: bcrypt.hashpw returns (or, in
\* mock mode, the password is 'signup')
SignupBegin(s, username, email, filled, matches, hashed) ==
    /\ Tick
    /\ pc[s] = "idle"
    /\ session_state[s].authenticated_user = None
    /\ \E okU \in ReadOutcomes(users_cache), okB \in ReadOutcomes(bookings_cache) :
        LET ss == session_state[s]
            lu == load_users_from_db(users_cache, ss.db_ready, okU, users)
            current_users == lu.value
            early == IF ~filled THEN "incomplete"
                     ELSE IF username \in DOMAIN current_users THEN "taken"
                     ELSE IF ~matches THEN "mismatch"
                     ELSE IF ~hashed THEN "hash_error"
                     ELSE "none"
        IN  IF early # "none"
            THEN LET r == RenderPage(ss, lu.cache, bookings_cache, okU, okB,
                                     users, bookings)
                 IN  /\ last' = [session |-> s, op |-> "signup", result |-> early,
                                 doc_id |-> 0]
                     /\ page' = [page EXCEPT ![s] = r.page]
                     /\ users_cache' = r.users_cache
                     /\ bookings_cache' = r.bookings_cache
                     /\ UNCHANGED <<pc, call>>
            ELSE /\ call' = [call EXCEPT ![s] =
                        [active |-> TRUE, username |-> username, email |-> email,
                         hashed_password |-> "$2b$"]]
                 /\ pc' = [pc EXCEPT ![s] = "signing_up"]
                 /\ users_cache' = lu.cache
                 /\ last' = [session |-> s, op |-> "signup", result |-> "running",
                             doc_id |-> 0]
                 /\ UNCHANGED <<bookings_cache, page>>
    /\ UNCHANGED <<bookings, next_doc_id, users, session_state, ovl, fcall>>

\* lines 302-306: the write, and the script run that follows it
SignupCommit(s) ==
    /\ Tick
    /\ pc[s] = "signing_up"
    /\ \E ok \in WriteOutcomes, okU \in ReadOutcomes(NoCache),
          okB \in ReadOutcomes(bookings_cache) :
        LET ss == session_state[s]
            sv == save_new_user_to_db(call[s].username, call[s].email,
                                      call[s].hashed_password, ss.db_ready, ok,
                                      users, users_cache)
            r == RenderPage(ss, sv.users_cache, bookings_cache, okU, okB,
                            sv.users, bookings)
        IN  /\ users' = sv.users
            /\ last' = [session |-> s, op |-> "signup",
                        result |-> IF sv.saved THEN "registered" ELSE "save_failed",
                        doc_id |-> 0]
            /\ page' = [page EXCEPT ![s] = r.page]
            /\ users_cache' = r.users_cache
            /\ bookings_cache' = r.bookings_cache
    /\ pc' = [pc EXCEPT ![s] = "idle"]
    /\ call' = [call EXCEPT ![s] = NoCall]
    /\ UNCHANGED <<bookings, next_doc_id, session_state, ovl, fcall>>

NextSignup ==
    \/ Next
    \/ \E s \in Sessions, username \in SignupNames, email \in SignupEmails,
          filled \in BOOLEAN, matches \in BOOLEAN, hashed \in BOOLEAN :
           SignupBegin(s, username, email, filled, matches, hashed)
    \/ \E s \in Sessions : SignupCommit(s)

SpecSignup == InitReliable /\ [][NextSignup]_vars

----------------------------------------------------------------------------
(* Vocabulary of the properties *)

\* the stored booking as times and a date
StartOf(b) == TimeFromisoformat(b.start_time)

EndOf(b) == TimeFromisoformat(b.end_time)

\* half-open overlap of two stored bookings of one room and one date
Overlapping(b1, b2) ==
    /\ b1.room = b2.room
    /\ b1.date = b2.date
    /\ TimeLess(StartOf(b1), EndOf(b2))
    /\ TimeLess(StartOf(b2), EndOf(b1))

\* some booking of the collection overlaps the request in its room on its date
StoreOverlap(new_booking, collection) ==
    \E b \in collection :
        /\ b.room = new_booking.room
        /\ b.date = new_booking.date
        /\ TimeLess(new_booking.start_time_obj, EndOf(b))
        /\ TimeLess(StartOf(b), new_booking.end_time_obj)

\* the step is session s leaving handle_booking_submission with an answer
Answers(s) == pc[s] = "submitting" /\ pc'[s] = "idle"

\* the step is a click of session s in the cancel column
Cancels(s) == pc[s] = "idle" /\ last'.op = "cancel" /\ last'.session = s

Authorized(s, b) ==
    \/ session_state[s].authenticated_user = b.user_id
    \/ session_state[s].user_role = "admin"

----------------------------------------------------------------------------
(* C1 - C10 *)

\* C1: any two distinct bookings of the store with the same room and the same
\* date do not overlap (not (start1 < end2 and start2 < end1)), in every
\* reachable state.
C1_NonOverlap ==
    \A b1 \in bookings, b2 \in bookings : b1 # b2 => ~Overlapping(b1, b2)

\* C2: of requests that run concurrently and overlap in one room on one date,
\* never two succeed: a request that is answered after an overlapping booking
\* was written while it ran is not confirmed.
C2_RaceOneWinner ==
    [][\A s \in Sessions :
          (/\ Answers(s)
           /\ \E b \in bookings :
                  /\ b.doc_id >= call[s].began_at
                  /\ StoreOverlap(call[s].new_booking, {b}))
          => last'.result # "confirmed"]_vars

\* C3: whenever handle_booking_submission answers confirmed or conflict, the
\* answer equals the conflict test of the candidate against the bookings that
\* are in the store at that moment.
C3_AnswerFromStore ==
    [][\A s \in Sessions :
          (Answers(s) /\ last'.result \in {"confirmed", "conflict"})
          => (last'.result = "conflict"
                  <=> is_conflict(call[s].new_booking, bookings))]_vars

\* C4: handle_booking_submission never writes a booking whose conflict check
\* ran on the empty list of a read that failed or was not made.
C4_NoAdmissionOnFailedRead ==
    [][\A s \in Sessions :
          (Answers(s) /\ last'.result = "confirmed") => ~call[s].failed]_vars

C6_SequentialAdmission ==
    [][\A s \in Sessions :
          (Answers(s) /\ last'.result \in {"confirmed", "conflict"})
          => /\ last'.result = "confirmed"
                    <=> ~StoreOverlap(call[s].new_booking, bookings)
             /\ last'.result = "confirmed"
                    => \E b \in bookings' \ bookings :
                           /\ b.room = call[s].new_booking.room
                           /\ b.date = call[s].new_booking.date
                           /\ b.start_time = call[s].new_booking.start_time
                           /\ b.end_time = call[s].new_booking.end_time]_vars

\* C7: is_time_overlap(start1, end1, start2, end2) is true exactly when
\* start1 < end2 and start2 < end1, for all times to the minute.
C7_OverlapHalfOpen ==
    ovl.called =>
        (ovl.result <=> (TimeLess(ovl.start1, ovl.end2) /\ TimeLess(ovl.start2, ovl.end1)))

C7_Witness ==
    /\ ovl.called
    /\ ovl.end1 = ovl.start2
    /\ TimeLess(ovl.start1, ovl.end1)
    /\ TimeLess(ovl.start2, ovl.end2)
    /\ ~ovl.result

\* C8: a request that starts exactly where a stored booking of its room and
\* date ends, or ends exactly where one starts, and overlaps no stored booking,
\* is not answered with a conflict: it is handed to the store and, once
\* written, stands beside the booking it touches.
C8_BoundarySucceeds ==
    [][\A s \in Sessions :
          (/\ Answers(s)
           /\ ~StoreOverlap(call[s].new_booking, bookings)
           /\ \E b \in bookings :
                  /\ b.room = call[s].new_booking.room
                  /\ b.date = call[s].new_booking.date
                  /\ \/ EndOf(b) = call[s].new_booking.start_time_obj
                     \/ StartOf(b) = call[s].new_booking.end_time_obj)
          => /\ last'.result \in {"confirmed", "save_failed"}
             /\ last'.result = "confirmed"
                    => /\ bookings \subseteq bookings'
                       /\ \E b \in bookings' \ bookings :
                              b.start_time = call[s].new_booking.start_time]_vars

C8_Witness ==
    /\ last.op = "book"
    /\ last.result = "confirmed"
    /\ \E b1 \in bookings, b2 \in bookings :
           /\ b1.doc_id = last.doc_id
           /\ b2.doc_id < b1.doc_id
           /\ b1.room = b2.room
           /\ b1.date = b2.date
           /\ b1.end_time = b2.start_time

\* C9: delete_booking_from_db never reports success for an id that is not in
\* the store: a second cancellation of a booking is not a second success.
C9_NoSecondSuccess ==
    [][\A s \in Sessions :
          (Cancels(s) /\ ~\E b \in bookings : b.doc_id = last'.doc_id)
          => last'.result # "cancelled"]_vars

\* C10: whenever handle_booking_submission answers with a conflict, the store
\* is what it was, no document id was used for a write, and the request is
\* over: the session holds no running or repeated submission.
C10_ConflictLeavesStore ==
    [][\A s \in Sessions :
          (Answers(s) /\ last'.result = "conflict")
          => /\ bookings' = bookings
             /\ next_doc_id' = next_doc_id
             /\ call'[s] = NoCall
             /\ \A t \in Sessions : pc'[t] = "submitting" => pc[t] = "submitting"]_vars

C10_Witness ==
    /\ last.op = "book"
    /\ last.result = "conflict"
    /\ pc[last.session] = "idle"
    /\ call[last.session] = NoCall
    /\ bookings # {}

----------------------------------------------------------------------------
(* C11 - C20 *)

\* the step is a call of handle_booking_submission by session s
Submits(s) == pc[s] = "idle" /\ last'.op = "book" /\ last'.session = s

\* C11: a call of handle_booking_submission by a session with no authenticated
\* user is answered with the login toast and writes nothing and starts nothing;
\* a booking is added to the store only by a session that has an authenticated
\* user, that is between a login of the session and its next logout.
C11_UnauthenticatedRejected ==
    [][/\ \A s \in Sessions :
              (Submits(s) /\ session_state[s].authenticated_user = None)
              => /\ last'.result = "unauthenticated"
                 /\ bookings' = bookings
                 /\ next_doc_id' = next_doc_id
                 /\ pc'[s] = "idle"
       /\ bookings' \ bookings # {}
              => /\ last'.op = "book"
                 /\ session_state[last'.session].authenticated_user # None
                 /\ session_state'[last'.session].authenticated_user # None]_vars

C11_Witness ==
    /\ last.op = "book"
    /\ last.result = "unauthenticated"
    /\ session_state[last.session].authenticated_user = None
    /\ \E t \in Sessions : session_state[t].authenticated_user # None
    /\ bookings # {}

\* C12: a call of handle_booking_submission by a logged-in session with
\* start >= end is answered with the interval toast before the handler has
\* called a loader, writes nothing and starts nothing; and every booking of the
\* store has start < end.
C12_InvalidIntervalRejected ==
    /\ [](\A b \in bookings : TimeLess(StartOf(b), EndOf(b)))
    /\ [][\A s \in Sessions :
              (/\ Submits(s)
               /\ session_state[s].authenticated_user # None
               /\ ~TimeLess(last'.start_time, last'.end_time))
              => /\ last'.result = "invalid_interval"
                 /\ last'.loaded = {}
                 /\ bookings' = bookings
                 /\ next_doc_id' = next_doc_id
                 /\ pc'[s] = "idle"]_vars

C12_Witness ==
    /\ last.op = "book"
    /\ last.result = "invalid_interval"
    /\ TimeLess(last.end_time, last.start_time)
    /\ bookings # {}

\* C13: a call of handle_booking_submission for a room that is not a key of
\* ROOMS is answered as an unknown room and leaves the store as it is; and every
\* booking of the store names a room of ROOMS.
C13_UnknownRoomRejected ==
    /\ [](\A b \in bookings : b.room \in ROOMS)
    /\ [][\A s \in Sessions :
              (Answers(s) /\ call[s].new_booking.room \notin ROOMS)
              => /\ last'.result = "unknown_room"
                 /\ bookings' = bookings]_vars

\* the outcomes the two handlers report with a toast or st.error
ReportedOutcomes ==
    {"unauthenticated", "invalid_interval", "conflict", "confirmed", "save_failed",
     "cancelled", "error"}

\* C14: every call of handle_booking_submission and of delete_booking_from_db
\* that has ended has ended with a reported outcome: no exception has left the
\* handler, whatever the session, the cached users and the store are.
C14_NoUnhandledFault ==
    (last.op \in {"book", "cancel"} /\ last.result # "running")
        => last.result \in ReportedOutcomes

\* C15: the conflict check of a booking request sees the store as the writes
\* before the request left it: the bookings the handler loads are the bookings
\* of the store, every added one among them and no removed one.
C15_WritesVisible ==
    [][\A s \in Sessions :
          (Submits(s) /\ pc'[s] = "submitting")
          => call'[s].current_bookings = bookings]_vars

\* C16: whenever handle_booking_submission answers with a conflict, what it
\* reports carries the owner and the interval of a booking of the store that
\* overlaps the request in its room on its date.
C16_ConflictNamesCollision ==
    [][\A s \in Sessions :
          (Answers(s) /\ last'.result = "conflict")
          => \E b \in call[s].current_bookings \cup bookings :
                 /\ ConflictsWith(call[s].new_booking, b)
                 /\ {"owner", "start_time", "end_time"} \subseteq DOMAIN last'.toast
                 /\ last'.toast.owner = b.user_id
                 /\ last'.toast.start_time = b.start_time
                 /\ last'.toast.end_time = b.end_time]_vars

\* the 30-minute slots of the window of the chart, as minutes after START_HOUR
SlotMinutes == 3 * SliderStep

SlotStarts == {m \in 0..(TOTAL_MINUTES - SlotMinutes) : m % SlotMinutes = 0}

\* datetime.datetime comparison: the date, then the time
DatetimeLess(a, b) ==
    \/ a.date.year < b.date.year
    \/ a.date.year = b.date.year /\ a.date.month < b.date.month
    \/ a.date.year = b.date.year /\ a.date.month = b.date.month
           /\ a.date.day < b.date.day
    \/ a.date = b.date /\ TimeLess(a.time, b.time)

\* the chart shows the slot that starts at minute m on the line of the room as
\* booked by owner: a bar of that user on that line reaches into the slot
ShownBooked(chart, view_date, room_name, m, owner) ==
    /\ chart.drawn
    /\ \E bar \in chart.bars :
           /\ bar.Room = room_name
           /\ bar.User = owner
           /\ DatetimeLess(bar.Start,
                           DatetimeCombine(view_date, minutes_to_time(m + SlotMinutes)))
           /\ DatetimeLess(DatetimeCombine(view_date, minutes_to_time(m)), bar.Finish)

\* C17: on the chart of a date, the 30-minute slot of a room is shown as booked
\* by owner o if and only if the bookings hold a booking of o for that room on
\* that date that overlaps [slot_start, slot_start + 30) under the half-open
\* rule, and as free otherwise; bookings of other dates change nothing, and
\* drawing the chart leaves the store as it is.
C17_AvailabilityProjection ==
    /\ [](fcall.fn = "display_availability_chart" /\ fcall.done
            => \A room_name \in ROOMS, m \in SlotStarts, o \in UserNames :
                   ShownBooked(fcall.chart, fcall.view_date, room_name, m, o)
                   <=> \E b \in bookings :
                           /\ b.user_id = o
                           /\ b.room = room_name
                           /\ b.date = DateIsoformat(fcall.view_date)
                           /\ TimeLess(StartOf(b), minutes_to_time(m + SlotMinutes))
                           /\ TimeLess(minutes_to_time(m), EndOf(b)))
    /\ [][fcall' # fcall => bookings' = bookings]_vars

C17_Witness ==
    /\ fcall.fn = "display_availability_chart"
    /\ fcall.done
    /\ \E b1 \in bookings, b2 \in bookings :
           /\ b1.date = DateIsoformat(fcall.view_date)
           /\ b2.date # b1.date
           /\ b2.room = b1.room
           /\ b2.start_time # b1.start_time
           /\ \E m \in SlotStarts :
                  /\ ShownBooked(fcall.chart, fcall.view_date, b1.room, m, b1.user_id)
                  /\ ~ShownBooked(fcall.chart, fcall.view_date, b1.room,
                                  m + SlotMinutes, b1.user_id)

\* C18: no step changes a booking of the store in place. A booking leaves the
\* store only by a successful cancellation of its id, which removes that
\* booking and no other; a document enters only by a confirmed submission,
\* which adds exactly one, under an id no booking had, and removes none; every
\* other step (a refused or failed submission or cancellation, a script run, a
\* login, a logout) leaves the store as it is.
C18_NeverMutated ==
    [][/\ \A b \in bookings :
              b \notin bookings'
              => /\ last'.op = "cancel"
                 /\ last'.result = "cancelled"
                 /\ last'.doc_id = b.doc_id
                 /\ ~\E c \in bookings' : c.doc_id = b.doc_id
       /\ \A b \in bookings' \ bookings :
              /\ last'.op = "book"
              /\ last'.result = "confirmed"
              /\ last'.doc_id = b.doc_id
              /\ ~\E c \in bookings : c.doc_id = b.doc_id
       /\ (last'.op = "book" /\ last'.result = "confirmed")
              => /\ bookings \subseteq bookings'
                 /\ Cardinality(bookings' \ bookings) = 1
       /\ (last'.op = "cancel" /\ last'.result = "cancelled")
              => bookings' = {b \in bookings : b.doc_id # last'.doc_id}
       /\ ~(last'.op \in {"book", "cancel"} /\ last'.result \in {"confirmed", "cancelled"})
              => bookings' = bookings]_vars

C18_Witness ==
    /\ last.op = "cancel"
    /\ last.result = "cancelled"
    /\ Cardinality(bookings) = 1
    /\ next_doc_id = 3
    /\ \A b \in bookings : b.doc_id # last.doc_id

\* C19: a booking that enters the store has as user_id the user who is
\* authenticated in the session whose submission wrote it, and that user was
\* the session's user when the submission was made: a session with a
\* submission under way has the user of the submission, and no step changes
\* the user of a session while its submission runs.
C19_OwnerIsRequester ==
    /\ [](\A s \in Sessions :
              pc[s] = "submitting"
              => /\ session_state[s].authenticated_user # None
                 /\ call[s].new_booking.user_id = session_state[s].authenticated_user)
    /\ [][\A b \in bookings' \ bookings :
              /\ last'.op = "book"
              /\ b.user_id = session_state[last'.session].authenticated_user
              /\ b.user_id = session_state'[last'.session].authenticated_user]_vars

C19_Witness ==
    /\ last.op = "book"
    /\ last.result = "confirmed"
    /\ \E b \in bookings :
           /\ b.doc_id = last.doc_id
           /\ b.user_id = session_state[last.session].authenticated_user
           /\ \E t \in Sessions :
                  /\ t # last.session
                  /\ session_state[t].authenticated_user \notin {None, b.user_id}

\* C20: is_conflict returns True, and the request is answered with a conflict,
\* only if some booking it was given has the room and the date of the request
\* and an interval that overlaps the request's; bookings of other rooms or of
\* other dates never make a conflict.
C20_RoomDateIndependence ==
    (fcall.fn = "is_conflict" /\ fcall.done)
        => /\ fcall.result => StoreOverlap(fcall.new_booking, bookings)
           /\ fcall.answer = "conflict" => StoreOverlap(fcall.new_booking, bookings)

C20_Witness ==
    /\ fcall.fn = "is_conflict"
    /\ fcall.done
    /\ ~fcall.result
    /\ fcall.answer = "confirmed"
    /\ \E b1 \in bookings, b2 \in bookings :
           /\ b1.room # fcall.new_booking.room
           /\ b1.date = fcall.new_booking.date
           /\ b1.start_time = fcall.new_booking.start_time
           /\ b2.room = fcall.new_booking.room
           /\ b2.date # fcall.new_booking.date
           /\ b2.start_time = fcall.new_booking.start_time

----------------------------------------------------------------------------
(* C21 - C22 *)

\* C21: the time range of the booking form, its default value included, lies
\* within 0..TOTAL_MINUTES on a multiple of 10, and minutes_to_time maps its
\* start and its end to times from 08:00 to 17:00.
C21_WindowBounds ==
    fcall.fn = "display_booking_form"
        => /\ \A i \in {1, 2} :
                  /\ fcall.time_range[i] \in 0..TOTAL_MINUTES
                  /\ fcall.time_range[i] % SliderStep = 0
           /\ fcall.done
                  => \A t \in {fcall.start_time, fcall.end_time} :
                         /\ ~TimeLess(t, minutes_to_time(0))
                         /\ ~TimeLess(minutes_to_time(TOTAL_MINUTES), t)

\* C22: no step changes or removes an account of the users collection, a
\* sign-up that reaches its write for a username the collection holds is
\* refused, and every account that enters the collection has the role 'user'.
C22_SignupNeverOverwrites ==
    [][/\ \A u \in DOMAIN users : u \in DOMAIN users' /\ users'[u] = users[u]
       /\ \A u \in DOMAIN users' \ DOMAIN users : users'[u].role = "user"
       /\ \A s \in Sessions :
              (/\ pc[s] = "signing_up"
               /\ pc'[s] = "idle"
               /\ call[s].username \in DOMAIN users)
              => last'.result \notin {"registered"}]_vars

====
